---- MODULE Spec2Model ----
(***************************************************************************)
(* Model of the SOME/IP tooling: the thread-safe client/session id        *)
(* Allocator (core/allocator.py), the base SOME/IP packet codec           *)
(* (protocol/someip/packet.py) and the SOME/IP-SD packet, entry and       *)
(* option codecs (protocol/someipsd).                                     *)
(***************************************************************************)
EXTENDS Integers, Sequences, FiniteSets, TLC

(***************************************************************************)
(* Bounds.  PoolMax stands for 0xFFFE (the pool is range(1, 0xFFFF)) and   *)
(* SessionWrap for the 0xFFFF threshold of get_session_id; both are       *)
(* scaled down so that exhaustion and wrap-around happen in the model.     *)
(***************************************************************************)
NumThreads == 2
NumAddresses == 3
PoolMax == 2
SessionWrap == 3

Threads == 1..NumThreads
Addresses == 1..NumAddresses
ClientIds == 1..PoolMax

NoThread == 0
NoValue == -1

VARIABLES
    client_pool,          \* Allocator.__client_pool: set of available ids
    address_client_map,   \* Allocator.__address_client_map: address -> id
    client_session_map,   \* Allocator.__client_session_map: id -> next value of its itertools.count
    lockOwner,            \* thread owning Allocator.__lock (RLock), NoThread if free
    lockCount,            \* recursion level of the RLock
    pc,                   \* per thread: "idle", "acquire" (blocked on `with self.lock`),
                          \* "exit" (body of the with block done, leaving it)
    op,                   \* per thread: the Allocator method it is leaving
    arg,                  \* per thread: the argument of that method (address or client id)
    last,                 \* outcome of the call that is leaving its with block
    granted,              \* history: address -> id last returned for it (0 = none since its release)
    lastSession,          \* history: id -> session id last returned (NoValue = none since discard)
    newlyAssigned,        \* history: the id the latest call gave to a new address (0 = it did not)
    packet,               \* the base SOME/IP Packet under construction: <<>> or <<fields>>
    series,               \* outcome of Packet.encode() on it
    stream,               \* the bytes handed to a decode(): <<>> or <<bytes>>
    decoded,              \* outcome of that decode()
    raised,               \* exception raised by the latest validating constructor
    args                  \* arguments of the latest entry or option constructor call: <<>> or <<arguments>>

allocVars == <<client_pool, address_client_map, client_session_map>>
histVars == <<granted, lastSession, newlyAssigned>>
threadVars == <<lockOwner, lockCount, pc, op, arg, last>>
codecVars == <<packet, series, stream, decoded, raised, args>>
vars == <<client_pool, address_client_map, client_session_map, lockOwner,
          lockCount, pc, op, arg, last, granted, lastSession, newlyAssigned,
          packet, series, stream, decoded, raised, args>>

\* outcome of a call: the method, the branch it took, the exception it raised
Outcome(o, c, e) == [op |-> o, case |-> c, err |-> e]
NoCall == Outcome("none", "none", "none")

\* no encode() has run on the current packet
NotEncoded == [ok |-> FALSE, err |-> "none", bytes |-> <<>>]

\* no constructor has raised
NotRaised == [err |-> "none", field |-> "none"]

\* no decode() has run on the current stream
NotDecoded == [ok |-> FALSE, err |-> "none", value |-> <<>>, index |-> 0]

\* threading.RLock(): free, recursion level 0
RLockInit == [owner |-> NoThread, count |-> 0]

\* set(range(1, 0xFFFF))
FullPool == ClientIds

\* dict(): the function with the empty domain
EmptyMap == [x \in {} |-> 0]

Init ==
    /\ client_pool = FullPool
    /\ address_client_map = EmptyMap
    /\ client_session_map = EmptyMap
    /\ lockOwner = RLockInit.owner
    /\ lockCount = RLockInit.count
    /\ pc = [t \in Threads |-> "idle"]
    /\ op = [t \in Threads |-> "none"]
    /\ arg = [t \in Threads |-> 0]
    /\ last = NoCall
    /\ granted = [a \in Addresses |-> 0]
    /\ lastSession = [c \in ClientIds |-> NoValue]
    /\ newlyAssigned = 0
    /\ packet = <<>>
    /\ series = NotEncoded
    /\ stream = <<>>
    /\ decoded = NotDecoded
    /\ raised = NotRaised
    /\ args = <<>>

(***************************************************************************)
(* Helpers for the containers used by the Allocator.                       *)
(***************************************************************************)
\* `key in mapping`
Has(m, k) == k \in DOMAIN m

MapSet_All(m, k, v) == [x \in DOMAIN m \cup {k} |-> v]

\* mapping[key] = value
MapSet(m, k, v) == [x \in DOMAIN m \cup {k} |-> IF x = k THEN v ELSE m[x]]

MapPop_Clear(m, k) == [x \in {} |-> 0]

\* mapping.pop(key, None)
MapPop(m, k) == [x \in DOMAIN m \ {k} |-> m[x]]

\* the ids currently assigned to some address
AssignedIds == {address_client_map[a] : a \in DOMAIN address_client_map}

NeedsNewId_Always(m, local) == TRUE

\* get_client_id, line 68: `local not in self.address_client_map`
NeedsNewId(m, local) == ~Has(m, local)

PopCandidates_Any(pool) == IF pool = {} THEN ClientIds ELSE pool

\* self.client_pool.pop(): the elements set.pop() may return; it raises
\* KeyError when there is none
PopCandidates(pool) == pool

PoolAfterPop_Keep(pool, c) == pool

\* self.client_pool.pop(): the pool once the element c has been taken
PoolAfterPop(pool, c) == pool \ {c}

PoolAfterAdd_Drop(pool, c) == pool

\* self.client_pool.add(client_id)
PoolAfterAdd(pool, c) == pool \cup {c}

\* defaultdict(itertools.count): a missing key gets a count() starting at 0
SessionCounter(csm, c) == IF Has(csm, c) THEN csm[c] ELSE 0

SessionIdOf_WrapToOne(cnt) ==
    IF cnt >= SessionWrap
    THEN [val |-> 1, next |-> 2, reset |-> TRUE]
    ELSE [val |-> cnt + 1, next |-> cnt + 2, reset |-> FALSE]

SessionIdOf_Stuck(cnt) ==
    IF cnt >= SessionWrap
    THEN [val |-> 0, next |-> 1, reset |-> TRUE]
    ELSE [val |-> cnt + 1, next |-> cnt, reset |-> FALSE]

\* get_session_id, lines 83-89, on a counter whose next value is cnt:
\* session_id = next(it); if session_id >= 0xFFFF the counter is replaced by
\* a new count(); the value returned is next(it) of the counter then in use.
SessionIdOf(cnt) ==
    IF cnt >= SessionWrap
    THEN [val |-> 0, next |-> 1, reset |-> TRUE]
    ELSE [val |-> cnt + 1, next |-> cnt + 2, reset |-> FALSE]

LockAfterExit_Held(owner, count) == [owner |-> owner, count |-> count - 1]

\* leaving `with self.lock`: one level of the RLock is given back
LockAfterExit(owner, count) ==
    [owner |-> IF count - 1 = 0 THEN NoThread ELSE owner, count |-> count - 1]

(***************************************************************************)
(* Entering and leaving `with self.lock` in an Allocator method.           *)
(***************************************************************************)
CanAcquire_Always(t) == TRUE

\* RLock.acquire(): blocks while another thread owns the lock, reentrant
CanAcquire(t) == lockOwner = NoThread \/ lockOwner = t

\* thread t calls a method while another thread owns the lock: it blocks
Call(t) ==
    /\ pc[t] = "idle"
    /\ ~CanAcquire(t)
    /\ pc' = [pc EXCEPT ![t] = "acquire"]
    /\ UNCHANGED <<allocVars, histVars, codecVars, lockOwner, lockCount, op, arg, last>>

\* thread t, calling or blocked in a call, can enter the with block
Ready(t) == pc[t] \in {"idle", "acquire"} /\ CanAcquire(t)

\* thread t gets the lock and runs the body of the with block of method o
\* with argument a, up to its outcome
Enter(t, o, a, outcome) ==
    /\ lockOwner' = t
    /\ lockCount' = lockCount + 1
    /\ pc' = [pc EXCEPT ![t] = "exit"]
    /\ op' = [op EXCEPT ![t] = o]
    /\ arg' = [arg EXCEPT ![t] = a]
    /\ last' = outcome
    /\ UNCHANGED codecVars

\* RLock.__exit__: the lock is given back and the caller has the outcome,
\* a return value or an exception
Exit(t) ==
    /\ pc[t] = "exit"
    /\ pc' = [pc EXCEPT ![t] = "idle"]
    /\ op' = [op EXCEPT ![t] = "none"]
    /\ arg' = [arg EXCEPT ![t] = 0]
    /\ lockOwner' = LockAfterExit(lockOwner, lockCount).owner
    /\ lockCount' = LockAfterExit(lockOwner, lockCount).count
    /\ last' = NoCall
    /\ UNCHANGED <<allocVars, histVars, codecVars>>

(***************************************************************************)
(* Allocator.get_client_id(local)                                          *)
(***************************************************************************)
GetClientId(t, local) ==
    /\ Ready(t)
    /\ IF ~NeedsNewId(address_client_map, local)
       THEN /\ Enter(t, "get_client_id", local, Outcome("get_client_id", "existing", "none"))
            /\ granted' = [granted EXCEPT ![local] = address_client_map[local]]
            /\ newlyAssigned' = 0
            /\ UNCHANGED <<allocVars, lastSession>>
       ELSE IF PopCandidates(client_pool) = {}
       THEN \* set.pop() raises KeyError before the assignment takes place
            /\ Enter(t, "get_client_id", local, Outcome("get_client_id", "exhausted", "KeyError"))
            /\ newlyAssigned' = 0
            /\ UNCHANGED <<allocVars, granted, lastSession>>
       ELSE \E c \in PopCandidates(client_pool) :
            /\ client_pool' = PoolAfterPop(client_pool, c)
            /\ address_client_map' = MapSet(address_client_map, local, c)
            /\ Enter(t, "get_client_id", local, Outcome("get_client_id", "new", "none"))
            /\ granted' = [granted EXCEPT ![local] = c]
            /\ newlyAssigned' = c
            /\ UNCHANGED <<client_session_map, lastSession>>

(***************************************************************************)
(* Allocator.get_session_id(client_id)                                     *)
(***************************************************************************)
GetSessionId(t, client_id) ==
    /\ Ready(t)
    /\ LET r == SessionIdOf(SessionCounter(client_session_map, client_id))
           branch == IF lastSession[client_id] = SessionWrap THEN "after_max"
                     ELSE IF r.reset THEN "reset"
                     ELSE IF Has(client_session_map, client_id) THEN "next"
                     ELSE "fresh"
       IN /\ client_session_map' = MapSet(client_session_map, client_id, r.next)
          /\ Enter(t, "get_session_id", client_id, Outcome("get_session_id", branch, "none"))
          /\ lastSession' = [lastSession EXCEPT ![client_id] = r.val]
          /\ newlyAssigned' = 0
          /\ UNCHANGED <<client_pool, address_client_map, granted>>

(***************************************************************************)
(* Allocator.release_client_id(local)                                      *)
(***************************************************************************)
ReleaseClientId(t, local) ==
    /\ Ready(t)
    /\ IF Has(address_client_map, local)
       THEN LET client_id == address_client_map[local] IN
            /\ address_client_map' = MapPop(address_client_map, local)
            /\ client_session_map' = MapPop(client_session_map, client_id)
            /\ client_pool' = PoolAfterAdd(client_pool, client_id)
            /\ granted' = [granted EXCEPT ![local] = 0]
            /\ lastSession' = [lastSession EXCEPT ![client_id] = NoValue]
            /\ newlyAssigned' = 0
            /\ Enter(t, "release_client_id", local,
                     Outcome("release_client_id",
                             IF client_pool = {} THEN "freed_on_empty" ELSE "freed",
                             "none"))
       ELSE /\ Enter(t, "release_client_id", local, Outcome("release_client_id", "noop", "none"))
            /\ newlyAssigned' = 0
            /\ UNCHANGED <<allocVars, granted, lastSession>>

(***************************************************************************)
(* Allocator.release(): both maps are cleared, then the assignment to the  *)
(* setter-less property client_pool raises AttributeError, so the private  *)
(* pool keeps the value it had.                                            *)
(***************************************************************************)
PoolAfterRelease(pool) == pool

Release(t) ==
    /\ Ready(t)
    /\ client_session_map' = EmptyMap
    /\ address_client_map' = EmptyMap
    /\ client_pool' = PoolAfterRelease(client_pool)
    /\ granted' = [a \in Addresses |-> 0]
    /\ lastSession' = [c \in ClientIds |-> NoValue]
    /\ newlyAssigned' = 0
    /\ Enter(t, "release", 0, Outcome("release", "reset", "AttributeError"))

(***************************************************************************)
(* A caller takes and gives back allocator.lock itself (the lock property  *)
(* is public), to make a sequence of calls atomic.                         *)
(***************************************************************************)
LockAcquire(t) ==
    /\ pc[t] = "idle"
    /\ lockOwner = NoThread
    /\ lockOwner' = t
    /\ lockCount' = 1
    /\ UNCHANGED <<allocVars, histVars, codecVars, pc, op, arg, last>>

LockRelease(t) ==
    /\ pc[t] = "idle"
    /\ lockOwner = t
    /\ lockOwner' = LockAfterExit(lockOwner, lockCount).owner
    /\ lockCount' = LockAfterExit(lockOwner, lockCount).count
    /\ UNCHANGED <<allocVars, histVars, codecVars, pc, op, arg, last>>

Next ==
    \E t \in Threads :
        \/ \E local \in Addresses : GetClientId(t, local)
        \/ \E client_id \in ClientIds : GetSessionId(t, client_id)
        \/ \E local \in Addresses : ReleaseClientId(t, local)
        \/ Release(t)
        \/ Exit(t)

Spec == Init /\ [][Next]_vars

\* the same, with callers that block and callers that take allocator.lock
\* themselves
LockNext ==
    \/ Next
    \/ \E t \in Threads :
        \/ Call(t)
        \/ LockAcquire(t)
        \/ LockRelease(t)

LockSpec == Init /\ [][LockNext]_vars

\* a thread blocked in RLock.acquire() gets the lock and runs its method
Resume(t) ==
    /\ pc[t] = "acquire"
    /\ \/ \E local \in Addresses : GetClientId(t, local)
       \/ \E client_id \in ClientIds : GetSessionId(t, client_id)
       \/ \E local \in Addresses : ReleaseClientId(t, local)
       \/ Release(t)

\* callers of the methods only, some of them blocked on the lock
BlockNext ==
    \/ Next
    \/ \E t \in Threads : Call(t)

\* A thread inside a with block is running and leaves it (no statement of a
\* body waits, sleeps or loops), and a thread waiting in RLock.acquire() gets
\* the lock at one of the times it is free.
FairSpec ==
    /\ Init
    /\ [][BlockNext]_vars
    /\ \A t \in Threads : WF_vars(Exit(t)) /\ SF_vars(Resume(t))

TypeOK ==
    /\ client_pool \subseteq ClientIds
    /\ DOMAIN address_client_map \subseteq Addresses
    /\ DOMAIN client_session_map \subseteq ClientIds
    /\ \A c \in DOMAIN client_session_map : client_session_map[c] \in 1..(SessionWrap + 1)
    /\ lockOwner \in Threads \cup {NoThread}
    /\ lockCount \in 0..2

(***************************************************************************)
(* Properties of the Allocator.                                            *)
(***************************************************************************)
\* in this step thread t runs the body of method o with argument a
Runs(t, o, a) == pc[t] # "exit" /\ pc'[t] = "exit" /\ op'[t] = o /\ arg'[t] = a

\* the value a client id that was never used gets from get_session_id
FirstSessionId == SessionIdOf(SessionCounter(EmptyMap, 0)).val

\* C1: the ids returned for distinct addresses (and not released since) are
\* pairwise distinct and lie in [1, PoolMax]; no two registered addresses
\* map to the same client id.
C1_ClientIdsUnique ==
    /\ \A a, b \in Addresses :
          (a # b /\ granted[a] # 0 /\ granted[b] # 0) => granted[a] # granted[b]
    /\ \A a \in Addresses : granted[a] # 0 => granted[a] \in 1..PoolMax
    /\ \A a, b \in DOMAIN address_client_map :
          a # b => address_client_map[a] # address_client_map[b]
    /\ AssignedIds \subseteq 1..PoolMax

\* as many distinct addresses as the pool has ids have been given an id,
\* the last of them just now
C1_Witness ==
    /\ Cardinality({a \in Addresses : granted[a] # 0}) = PoolMax
    /\ last.op = "get_client_id" /\ last.case = "new"

\* C2: on a fresh counter get_session_id returns 0, and on every following
\* call the previous value plus one, wrapping from SessionWrap to 0.
C2_SessionSequence ==
    [][\A t \in Threads : \A c \in ClientIds :
         Runs(t, "get_session_id", c) =>
            lastSession'[c] =
               IF ~Has(client_session_map, c) THEN 0
               ELSE (lastSession[c] + 1) % (SessionWrap + 1)]_vars

\* C3: release() raises nothing and leaves both maps empty and the pool
\* equal to the full set of ids.
C3_ResetRestoresInitialState ==
    [][\A t \in Threads : Runs(t, "release", 0) =>
         /\ last'.err = "none"
         /\ address_client_map' = EmptyMap
         /\ client_session_map' = EmptyMap
         /\ client_pool' = FullPool]_vars

\* C4: the first get_session_id for an id that was just given to a newly
\* registered address returns the first value of a fresh sequence (stated
\* for the get_session_id that is the next call after the registration).
C4_FreshCounterOnReuse ==
    [][\A t \in Threads : \A c \in ClientIds :
         (Runs(t, "get_session_id", c) /\ newlyAssigned = c) =>
            lastSession'[c] = FirstSessionId]_vars

\* C5: get_client_id for an address that already got an id, and was not
\* released since, returns that same id without raising and changes neither
\* the pool nor the maps.
C5_GetClientIdIdempotent ==
    [][\A t \in Threads : \A a \in Addresses :
         (Runs(t, "get_client_id", a) /\ granted[a] # 0) =>
            /\ granted'[a] = granted[a]
            /\ last'.err = "none"
            /\ UNCHANGED allocVars]_vars

\* a repeated get_client_id has run while other addresses are registered
C5_Witness ==
    /\ last.op = "get_client_id" /\ last.case = "existing"
    /\ Cardinality(DOMAIN address_client_map) >= 2

\* C6: every session id returned lies in [0, SessionWrap], and the call
\* following one that returned SessionWrap returns 0.
C6_SessionWrap ==
    /\ [](\A c \in ClientIds : lastSession[c] \in {NoValue} \cup 0..SessionWrap)
    /\ [][\A t \in Threads : \A c \in ClientIds :
            (Runs(t, "get_session_id", c) /\ lastSession[c] = SessionWrap) =>
               lastSession'[c] = 0]_vars

\* a call that followed the one returning SessionWrap has run
C6_Witness ==
    /\ last.op = "get_session_id" /\ last.case = "after_max"
    /\ \E t \in Threads : pc[t] = "exit" /\ lastSession[arg[t]] = 0

\* C7: successive session ids of one client id strictly increase, except
\* that a call may wrap to 0 from one of the two top values.
C7_SessionIdsIncrease ==
    [][\A t \in Threads : \A c \in ClientIds :
         (Runs(t, "get_session_id", c) /\ lastSession[c] # NoValue) =>
            \/ lastSession'[c] > lastSession[c]
            \/ /\ lastSession'[c] = 0
               /\ lastSession[c] >= SessionWrap - 1]_vars

\* a follow-up session id has been handed out
C7_Witness ==
    /\ last.op = "get_session_id" /\ last.case = "next"
    /\ \E t \in Threads : pc[t] = "exit" /\ lastSession[arg[t]] > FirstSessionId

\* C8: release_client_id of a registered address removes its mapping and
\* the counter of its id and puts the id into the pool (the pool is exactly
\* that id when it was empty before); get_client_id for an unregistered
\* address takes its id from the pool.
C8_ReleaseReturnsId ==
    [][\A t \in Threads : \A a \in Addresses :
         /\ (Runs(t, "release_client_id", a) /\ Has(address_client_map, a)) =>
               /\ ~Has(address_client_map', a)
               /\ ~Has(client_session_map', address_client_map[a])
               /\ address_client_map[a] \in client_pool'
               /\ client_pool = {} => client_pool' = {address_client_map[a]}
               /\ last'.err = "none"
         /\ (Runs(t, "get_client_id", a) /\ ~Has(address_client_map, a)
               /\ client_pool # {}) =>
               /\ Has(address_client_map', a)
               /\ address_client_map'[a] \in client_pool]_vars

\* a registered address has been released while the pool was empty
C8_Witness ==
    /\ last.op = "release_client_id" /\ last.case = "freed_on_empty"
    /\ Cardinality(client_pool) = 1

\* C9: with an empty pool, get_client_id for an unregistered address raises
\* and changes nothing; for a registered address it still returns its id.
C9_PoolExhaustion ==
    [][\A t \in Threads : \A a \in Addresses :
         (Runs(t, "get_client_id", a) /\ client_pool = {}) =>
            IF Has(address_client_map, a)
            THEN /\ last'.err = "none"
                 /\ granted'[a] = address_client_map[a]
            ELSE /\ last'.err # "none"
                 /\ granted'[a] = 0
                 /\ UNCHANGED allocVars]_vars

\* get_client_id has failed while every id is assigned to an address
C9_Witness ==
    /\ last.op = "get_client_id" /\ last.case = "exhausted"
    /\ AssignedIds = ClientIds

(***************************************************************************)
(* Base SOME/IP packet (protocol/someip/packet.py).  Bytes are integers    *)
(* 0..255, bitarrays are sequences of 0/1.                                 *)
(***************************************************************************)
MaxPayload == 2

\* field values offered to the constructor: in range, at the upper end of
\* the width, and one past it
U16Inputs == {4660, 65535, 65536}
U8Inputs == {1, 255, 256}
ByteInputs == {1, 255}

RECURSIVE SeqsUpTo(_, _)
SeqsUpTo(S, n) ==
    IF n = 0 THEN {<<>>}
    ELSE LET shorter == SeqsUpTo(S, n - 1)
         IN shorter \cup {Append(q, x) : q \in {r \in shorter : Len(r) = n - 1}, x \in S}

\* protocol/someip/length.py: field widths in bits
Length ==
    [SERVICE_ID |-> 16, METHOD_ID |-> 16, LENGTH |-> 32, CLIENT_ID |-> 16,
     SESSION_ID |-> 16, PROTOCOL_VERSION |-> 8, INTERFACE_VERSION |-> 8,
     MESSAGE_TYPE |-> 8, RETURN_CODE |-> 8, PAYLOAD |-> -1]

\* v >> n
RECURSIVE ShiftRight(_, _)
ShiftRight(v, n) == IF n = 0 THEN v ELSE ShiftRight(v \div 2, n - 1)

\* bitarray.util.int2ba(v, length=n) raises OverflowError unless 0 <= v < 2^n
Int2baOk(v, n) == v >= 0 /\ ShiftRight(v, n) = 0

\* bitarray.util.int2ba(v, length=n): n bits, most significant first
RECURSIVE Int2ba(_, _)
Int2ba(v, n) == IF n = 0 THEN <<>> ELSE Append(Int2ba(v \div 2, n - 1), v % 2)

\* bitarray.util.ba2int(bits): unsigned big-endian value
RECURSIVE Ba2int(_)
Ba2int(bits) ==
    IF bits = <<>> THEN 0
    ELSE 2 * Ba2int(SubSeq(bits, 1, Len(bits) - 1)) + bits[Len(bits)]

\* bitarray.tobytes(): eight bits per byte, the last byte padded with zeros
RECURSIVE ToBytes(_)
ToBytes(bits) ==
    IF bits = <<>> THEN <<>>
    ELSE IF Len(bits) < 8 THEN ToBytes(Append(bits, 0))
    ELSE <<Ba2int(SubSeq(bits, 1, 8))>> \o ToBytes(SubSeq(bits, 9, Len(bits)))

\* variant: one more byte is counted into the header
ExpectedHeaderLength_Longer ==
    Length.SERVICE_ID + Length.METHOD_ID + Length.LENGTH + Length.CLIENT_ID
    + Length.SESSION_ID + Length.PROTOCOL_VERSION + Length.INTERFACE_VERSION
    + Length.MESSAGE_TYPE + Length.RETURN_CODE + 8

\* Packet.expected_header_length(): sum of the nine header widths, in bits
ExpectedHeaderLength ==
    Length.SERVICE_ID + Length.METHOD_ID + Length.LENGTH + Length.CLIENT_ID
    + Length.SESSION_ID + Length.PROTOCOL_VERSION + Length.INTERFACE_VERSION
    + Length.MESSAGE_TYPE + Length.RETURN_CODE

\* Packet.length
PacketLength(p) == ExpectedHeaderLength \div 8 + Len(p.payload)

\* the (value, width) pairs encode() passes to int2ba, in order
HeaderFields(p) ==
    << <<p.service_id, Length.SERVICE_ID>>,
       <<p.method_id, Length.METHOD_ID>>,
       <<PacketLength(p), Length.LENGTH>>,
       <<p.client_id, Length.CLIENT_ID>>,
       <<p.session_id, Length.SESSION_ID>>,
       <<p.protocol_version, Length.PROTOCOL_VERSION>>,
       <<p.interface_version, Length.INTERFACE_VERSION>>,
       <<p.message_type, Length.MESSAGE_TYPE>>,
       <<p.return_code, Length.RETURN_CODE>> >>

RECURSIVE HeaderBits(_)
HeaderBits(fields) ==
    IF fields = <<>> THEN <<>>
    ELSE Int2ba(fields[1][1], fields[1][2]) \o HeaderBits(Tail(fields))

\* Packet.encode()
EncodePacket(p) ==
    IF \A i \in DOMAIN HeaderFields(p) :
          Int2baOk(HeaderFields(p)[i][1], HeaderFields(p)[i][2])
    THEN [ok |-> TRUE, err |-> "none",
          bytes |-> ToBytes(HeaderBits(HeaderFields(p))) \o p.payload]
    ELSE [ok |-> FALSE, err |-> "OverflowError", bytes |-> <<>>]

\* Packet.__init__: the arguments are stored as given
NewPacket(sid, mid, cid, ssid, pv, iv, mt, rc, payload) ==
    [service_id |-> sid, method_id |-> mid, client_id |-> cid,
     session_id |-> ssid, protocol_version |-> pv, interface_version |-> iv,
     message_type |-> mt, return_code |-> rc, payload |-> payload]

\* a Packet is immutable: __init__ runs once, on an object without fields
Construct ==
    /\ packet = <<>>
    /\ \E sid, mid, cid, ssid \in U16Inputs :
       \E pv, iv, mt, rc \in U8Inputs :
       \E payload \in SeqsUpTo(ByteInputs, MaxPayload) :
        /\ packet' = <<NewPacket(sid, mid, cid, ssid, pv, iv, mt, rc, payload)>>
        /\ series' = NotEncoded
        /\ UNCHANGED <<allocVars, histVars, threadVars, stream, decoded, raised, args>>

Encode ==
    /\ packet # <<>>
    /\ series' = EncodePacket(packet[1])
    /\ UNCHANGED <<allocVars, histVars, threadVars, packet, stream, decoded, raised, args>>

PacketNext == Construct \/ Encode

PacketSpec == Init /\ [][PacketNext]_vars

\* the unsigned big-endian value of a byte string
RECURSIVE BytesToInt(_)
BytesToInt(bs) ==
    IF bs = <<>> THEN 0
    ELSE 256 * BytesToInt(SubSeq(bs, 1, Len(bs) - 1)) + bs[Len(bs)]

\* C10: the 32-bit length that encode writes at bytes [4:8] equals
\* 8 + len(payload).
C10_LengthField ==
    series.ok => BytesToInt(SubSeq(series.bytes, 5, 8)) = 8 + Len(packet[1].payload)

(***************************************************************************)
(* Base SOME/IP packet: decode (protocol/someip/packet.py, with            *)
(* utils/bit_reader.py).                                                   *)
(***************************************************************************)
MaxStream == 25

\* bytes of the raw inputs offered to a decoder: byte i of the input with
\* seed k; no byte has its top bit set at a position where a decoder reads
\* a 32-bit value
StreamSeeds == {0, 1, 7, 16, 37}
StreamByte(i, k) == (i * k) % 128
RawStream(n, k) == [i \in 1..n |-> StreamByte(i, k)]

Min(a, b) == IF a <= b THEN a ELSE b

\* bits[a:b] of Python: the indices are clamped to the ends of the sequence
Slice(bits, a, b) == SubSeq(bits, Min(a, Len(bits)) + 1, Min(b, Len(bits)))

\* bitarray.frombytes(): eight bits per byte, most significant first
RECURSIVE FromBytes(_)
FromBytes(bs) ==
    IF bs = <<>> THEN <<>> ELSE Int2ba(bs[1], 8) \o FromBytes(Tail(bs))

\* variant: the length field is read before the method id
DecodeWidths_LengthSecond ==
    <<Length.SERVICE_ID, Length.LENGTH, Length.METHOD_ID, Length.CLIENT_ID,
      Length.SESSION_ID, Length.PROTOCOL_VERSION, Length.INTERFACE_VERSION,
      Length.MESSAGE_TYPE, Length.RETURN_CODE>>

\* variant: the length field is read after the client id
DecodeWidths_Swapped ==
    <<Length.SERVICE_ID, Length.METHOD_ID, Length.CLIENT_ID, Length.LENGTH,
      Length.SESSION_ID, Length.PROTOCOL_VERSION, Length.INTERFACE_VERSION,
      Length.MESSAGE_TYPE, Length.RETURN_CODE>>

\* the widths decode() reads through the BitReader, in order
DecodeWidths ==
    <<Length.SERVICE_ID, Length.METHOD_ID, Length.LENGTH, Length.CLIENT_ID,
      Length.SESSION_ID, Length.PROTOCOL_VERSION, Length.INTERFACE_VERSION,
      Length.MESSAGE_TYPE, Length.RETURN_CODE>>

\* BitReader.read(length) at position index: the slice, then the index
\* setter, which raises ValueError when the new index is outside [0, len]
BitReaderRead(bits, index, length) ==
    [value |-> Slice(bits, index, index + length),
     index |-> IF index + length < 0 \/ index + length > Len(bits)
               THEN index ELSE index + length,
     ok |-> ~(index + length < 0 \/ index + length > Len(bits))]

\* the successive reader.read(width) calls of decode()
RECURSIVE ReadFields(_, _, _)
ReadFields(bits, index, widths) ==
    IF widths = <<>> THEN [ok |-> TRUE, values |-> <<>>, index |-> index]
    ELSE LET r == BitReaderRead(bits, index, widths[1])
         IN IF ~r.ok THEN [ok |-> FALSE, values |-> <<>>, index |-> r.index]
            ELSE LET rest == ReadFields(bits, r.index, Tail(widths))
                 IN [ok |-> rest.ok, values |-> <<r.value>> \o rest.values,
                     index |-> rest.index]

\* Packet.decode(series)
DecodePacket(bs) ==
    LET bits == FromBytes(bs)
    IN IF Len(bits) < ExpectedHeaderLength
       THEN [ok |-> FALSE, err |-> "ValueError", value |-> <<>>, index |-> 0]
       ELSE LET r == ReadFields(bits, 0, DecodeWidths)
            IN IF ~r.ok
               THEN [ok |-> FALSE, err |-> "ValueError", value |-> <<>>, index |-> r.index]
               ELSE [ok |-> TRUE, err |-> "none",
                     value |-> <<NewPacket(Ba2int(r.values[1]), Ba2int(r.values[2]),
                                           Ba2int(r.values[4]), Ba2int(r.values[5]),
                                           Ba2int(r.values[6]), Ba2int(r.values[7]),
                                           Ba2int(r.values[8]), Ba2int(r.values[9]),
                                           ToBytes(Slice(bits, r.index, Len(bits))))>>,
                     index |-> r.index]

\* the bytes encode() returned are handed to decode()
Loopback ==
    /\ stream = <<>>
    /\ series.ok
    /\ stream' = <<series.bytes>>
    /\ decoded' = NotDecoded
    /\ UNCHANGED <<allocVars, histVars, threadVars, packet, series, raised, args>>

\* bytes from the network are handed to decode()
Receive ==
    /\ stream = <<>>
    /\ \E n \in 0..MaxStream : \E k \in StreamSeeds :
        /\ stream' = <<RawStream(n, k)>>
        /\ decoded' = NotDecoded
        /\ UNCHANGED <<allocVars, histVars, threadVars, packet, series, raised, args>>

Decode ==
    /\ stream # <<>>
    /\ decoded = NotDecoded
    /\ decoded' = DecodePacket(stream[1])
    /\ UNCHANGED <<allocVars, histVars, threadVars, packet, series, stream, raised, args>>

\* a packet is built, encoded and decoded again
RoundTripNext == Construct \/ Encode \/ Loopback \/ Decode
RoundTripSpec == Init /\ [][RoundTripNext]_vars

\* raw bytes are decoded
DecodeNext == Receive \/ Decode
DecodeSpec == Init /\ [][DecodeNext]_vars

\* the widths of the eight fields the constructor takes
FieldsFit(p) ==
    /\ Int2baOk(p.service_id, Length.SERVICE_ID)
    /\ Int2baOk(p.method_id, Length.METHOD_ID)
    /\ Int2baOk(p.client_id, Length.CLIENT_ID)
    /\ Int2baOk(p.session_id, Length.SESSION_ID)
    /\ Int2baOk(p.protocol_version, Length.PROTOCOL_VERSION)
    /\ Int2baOk(p.interface_version, Length.INTERFACE_VERSION)
    /\ Int2baOk(p.message_type, Length.MESSAGE_TYPE)
    /\ Int2baOk(p.return_code, Length.RETURN_CODE)

\* C13: no base Packet with a field outside its declared width exists:
\* construction with such a field fails.
C13_ConstructionValidates ==
    packet # <<>> => FieldsFit(packet[1])

\* C14: for a base Packet whose fields fit their widths, encode succeeds
\* and decode of the encoded bytes succeeds and yields an equal Packet
\* (eight header fields and payload).
C14_PacketRoundTrip ==
    /\ (packet # <<>> /\ FieldsFit(packet[1]) /\ series # NotEncoded) => series.ok
    /\ (stream # <<>> /\ decoded # NotDecoded) =>
          /\ decoded.ok
          /\ decoded.value = packet

\* a packet with a payload has made the round trip
C14_Witness ==
    /\ decoded.ok
    /\ packet # <<>> /\ Len(packet[1].payload) = MaxPayload
    /\ stream = <<series.bytes>>

\* C15: decode fails for every input shorter than 16 bytes and succeeds for
\* every input of 16 bytes or more, never reading past the end.
C15_Truncation ==
    (stream # <<>> /\ decoded # NotDecoded) =>
        /\ decoded.ok <=> Len(stream[1]) >= 16
        /\ ~decoded.ok => decoded.err # "none" /\ decoded.value = <<>>
        /\ decoded.index <= 8 * Len(stream[1])

\* a 15-byte input has been rejected
C15_Witness ==
    /\ stream # <<>> /\ Len(stream[1]) = 15
    /\ ~decoded.ok /\ decoded.err = "ValueError"

(***************************************************************************)
(* SOME/IP-SD packet (protocol/someipsd/packet.py).                        *)
(***************************************************************************)
MaxArray == 2
MaxSdStream == 29

\* field values offered to the constructor of the 8-bit fields
SdU8Inputs == {255, 256}

\* values written into the two array-length fields of a raw input
DeclaredInputs == {0, 1, 5, 8, 32, 40}

\* variant: the value 1 << bits is accepted as well
ValidateBit_Inclusive(value, bits) ==
    value >= 0 /\ (value = 0 \/ ShiftRight(value - 1, bits) = 0)

\* __validate_bit(name, value, bits) on an int: 0 <= value <= (1 << bits) - 1,
\* i.e. value is not negative and value >> bits is 0
ValidateBit(value, bits) == value >= 0 /\ ShiftRight(value, bits) = 0

\* the name of the first check that raises, "none" if every check passes
RECURSIVE FirstInvalid(_)
FirstInvalid(checks) ==
    IF checks = <<>> THEN "none"
    ELSE IF ~ValidateBit(checks[1][2], checks[1][3]) THEN checks[1][1]
    ELSE FirstInvalid(Tail(checks))

\* the __validate_bit calls of Packet.__init__, in order
SdChecks(sid, mid, cid, ssid, pv, iv, mt, rc, flags) ==
    << <<"Service ID", sid, 16>>, <<"Method ID", mid, 16>>,
       <<"Client ID", cid, 16>>, <<"Session ID", ssid, 16>>,
       <<"Protocol Version", pv, 8>>, <<"Interface Version", iv, 8>>,
       <<"Message Type", mt, 8>>, <<"Return Code", rc, 8>>,
       <<"Flags", flags, 8>> >>

\* the fields Packet.__init__ stores
NewSdPacket(sid, mid, cid, ssid, pv, iv, mt, rc, flags, entries, options) ==
    [service_id |-> sid, method_id |-> mid, client_id |-> cid,
     session_id |-> ssid, protocol_version |-> pv, interface_version |-> iv,
     message_type |-> mt, return_code |-> rc, flags |-> flags,
     entries_array |-> entries, options_array |-> options]

\* variant: the options array is left out of the length
SdPacketLength_NoOptions(p) == 20 + Len(p.entries_array)

\* Packet.length
SdPacketLength(p) == 20 + Len(p.entries_array) + Len(p.options_array)

\* int.to_bytes(n, "big"): n bytes, most significant first
RECURSIVE IntToBytes(_, _)
IntToBytes(v, n) ==
    IF n = 0 THEN <<>> ELSE Append(IntToBytes(v \div 256, n - 1), v % 256)

\* int.to_bytes(n, "big") raises OverflowError unless 0 <= v < 256^n
IntToBytesOk(v, n) == v >= 0 /\ ShiftRight(v, 8 * n) = 0

\* the (field, bits) pairs of the integer fields before the reserved bits
SdHeadFields(p) ==
    << <<p.service_id, 16>>, <<p.method_id, 16>>, <<SdPacketLength(p), 32>>,
       <<p.client_id, 16>>, <<p.session_id, 16>>, <<p.protocol_version, 8>>,
       <<p.interface_version, 8>>, <<p.message_type, 8>>,
       <<p.return_code, 8>>, <<p.flags, 8>> >>

RECURSIVE SdFieldBytes(_)
SdFieldBytes(fields) ==
    IF fields = <<>> THEN <<>>
    ELSE IntToBytes(fields[1][1], fields[1][2] \div 8) \o SdFieldBytes(Tail(fields))

\* Packet.encode(): every piece is a whole number of bytes
EncodeSdPacket(p) ==
    IF \A i \in DOMAIN SdHeadFields(p) :
          IntToBytesOk(SdHeadFields(p)[i][1], SdHeadFields(p)[i][2] \div 8)
    THEN [ok |-> TRUE, err |-> "none",
          bytes |-> SdFieldBytes(SdHeadFields(p))
                    \o ToBytes([i \in 1..24 |-> 0])
                    \o IntToBytes(Len(p.entries_array), 32 \div 8)
                    \o p.entries_array
                    \o IntToBytes(Len(p.options_array), 32 \div 8)
                    \o p.options_array]
    ELSE [ok |-> FALSE, err |-> "OverflowError", bytes |-> <<>>]

\* what bitarray.util.ba2int does with an empty bitarray depends on the
\* installed bitarray: it raises ValueError or returns 0
EmptyBa2int == {"ValueError", "zero"}

\* Packet.decode(series); the declared array lengths are used as numbers of
\* bits and the slices are clamped to the end of the input
DecodeSdPacket(bs, onEmpty) ==
    IF Len(bs) # 28
    THEN [ok |-> FALSE, err |-> "ValueError", value |-> <<>>, index |-> 0]
    ELSE LET bits == FromBytes(bs)
             length_of_entries_array == Ba2int(Slice(bits, 160, 192))
             endEntries == 192 + length_of_entries_array
             optionsLenBits == Slice(bits, endEntries, endEntries + 32)
             length_of_options_array == Ba2int(optionsLenBits)
             endOptions == endEntries + 32 + length_of_options_array
         IN IF optionsLenBits = <<>> /\ onEmpty = "ValueError"
            THEN [ok |-> FALSE, err |-> "ValueError", value |-> <<>>, index |-> endEntries]
            ELSE [ok |-> TRUE, err |-> "none",
                  value |-> <<NewSdPacket(
                      Ba2int(Slice(bits, 0, 16)), Ba2int(Slice(bits, 16, 32)),
                      Ba2int(Slice(bits, 64, 80)), Ba2int(Slice(bits, 80, 96)),
                      Ba2int(Slice(bits, 96, 104)), Ba2int(Slice(bits, 104, 112)),
                      Ba2int(Slice(bits, 112, 120)), Ba2int(Slice(bits, 120, 128)),
                      Ba2int(Slice(bits, 128, 136)),
                      ToBytes(Slice(bits, 192, endEntries)),
                      ToBytes(Slice(bits, endEntries + 32, endOptions)))>>,
                  index |-> Min(endOptions, Len(bits))]

\* Packet.__init__: validation, then the fields are stored
SdConstruct ==
    /\ packet = <<>>
    /\ raised = NotRaised
    /\ \E sid, mid, cid, ssid \in U16Inputs :
       \E pv, iv, mt, rc, flags \in SdU8Inputs :
       \E entries, options \in SeqsUpTo(ByteInputs, MaxArray) :
        LET bad == FirstInvalid(SdChecks(sid, mid, cid, ssid, pv, iv, mt, rc, flags))
        IN /\ IF bad = "none"
              THEN /\ packet' = <<NewSdPacket(sid, mid, cid, ssid, pv, iv, mt, rc,
                                              flags, entries, options)>>
                   /\ raised' = NotRaised
              ELSE /\ packet' = packet
                   /\ raised' = [err |-> "ValueError", field |-> bad]
           /\ series' = NotEncoded
           /\ UNCHANGED <<allocVars, histVars, threadVars, stream, decoded, args>>

SdEncode ==
    /\ packet # <<>>
    /\ series = NotEncoded
    /\ series' = EncodeSdPacket(packet[1])
    /\ UNCHANGED <<allocVars, histVars, threadVars, packet, stream, decoded, raised, args>>

\* byte i of a raw input of seed k whose array-length fields declare e and o
SdStreamByte(i, e, o, k) ==
    IF i = 24 THEN e
    ELSE IF i = 28 THEN o
    ELSE IF i \in 21..27 THEN 0
    ELSE StreamByte(i, k)

\* bytes from the network are handed to decode()
SdReceive ==
    /\ stream = <<>>
    /\ \E n \in 0..MaxSdStream : \E e, o \in DeclaredInputs : \E k \in StreamSeeds :
        /\ stream' = <<[i \in 1..n |-> SdStreamByte(i, e, o, k)]>>
        /\ decoded' = NotDecoded
        /\ UNCHANGED <<allocVars, histVars, threadVars, packet, series, raised, args>>

SdDecode ==
    /\ stream # <<>>
    /\ decoded = NotDecoded
    /\ \E onEmpty \in EmptyBa2int : decoded' = DecodeSdPacket(stream[1], onEmpty)
    /\ UNCHANGED <<allocVars, histVars, threadVars, packet, series, stream, raised, args>>

\* a packet is built, encoded and decoded again
SdNext == SdConstruct \/ SdEncode \/ Loopback \/ SdDecode
SdSpec == Init /\ [][SdNext]_vars

\* raw bytes are decoded
SdDecodeNext == SdReceive \/ SdDecode
SdDecodeSpec == Init /\ [][SdDecodeNext]_vars

\* C11: decode of the encoded bytes of a service-discovery Packet succeeds
\* and reproduces its header fields, flags, entries and options.
C11_SdRoundTrip ==
    (packet # <<>> /\ stream # <<>> /\ decoded # NotDecoded) =>
        /\ decoded.ok
        /\ decoded.value = packet

\* the declared entries length, or the declared options length that
\* follows the entries, exceeds the bytes left after its length prefix
DeclaredExceeds(bs) ==
    /\ Len(bs) >= 24
    /\ LET E == BytesToInt(SubSeq(bs, 21, 24))
       IN \/ E > Len(bs) - 24
          \/ /\ Len(bs) >= 28 + E
             /\ BytesToInt(SubSeq(bs, 25 + E, 28 + E)) > Len(bs) - 28 - E

\* C12: decode fails and returns no Packet whenever a declared array
\* length exceeds the bytes remaining after its length prefix.
C12_NoClamp ==
    (stream # <<>> /\ decoded # NotDecoded /\ DeclaredExceeds(stream[1])) =>
        ~decoded.ok /\ decoded.value = <<>>

\* C16: encode writes 20 + E + O at bytes [4:8], E at bytes [20:24]
\* followed by the E entries bytes, then O on four bytes followed by the O
\* options bytes: 28 + E + O bytes in all.
C16_SdLengthIntegrity ==
    (packet # <<>> /\ series # NotEncoded) =>
        LET E == Len(packet[1].entries_array)
            O == Len(packet[1].options_array)
            b == series.bytes
        IN /\ series.ok
           /\ Len(b) = 28 + E + O
           /\ BytesToInt(SubSeq(b, 5, 8)) = 20 + E + O
           /\ BytesToInt(SubSeq(b, 21, 24)) = E
           /\ SubSeq(b, 25, 24 + E) = packet[1].entries_array
           /\ BytesToInt(SubSeq(b, 25 + E, 28 + E)) = O
           /\ SubSeq(b, 29 + E, 28 + E + O) = packet[1].options_array

\* a packet with entries and options of different lengths has been encoded
C16_Witness ==
    /\ packet # <<>> /\ series.ok
    /\ Len(packet[1].entries_array) = MaxArray
    /\ Len(packet[1].options_array) = 1

(***************************************************************************)
(* SOME/IP-SD entries (protocol/someipsd/entry/service_entry.py and        *)
(* eventgroup_entry.py).  An argument that may be an int or a bitarray is  *)
(* a record [t, v]: t is the Python type, v the int or the bits.           *)
(***************************************************************************)
IntArg(n) == [t |-> "int", v |-> n]
BitsArg(b) == [t |-> "bitarray", v |-> b]

\* n zero bits: bitarray("0" * n)
Zeros(n) == [i \in 1..n |-> 0]

\* __validate_bit(name, value, bits): an int must fit in `bits` bits, a
\* bitarray must have `bits` bits, any other type is not checked
ValidateArg(a, bits) ==
    IF a.t = "int" THEN ValidateBit(a.v, bits)
    ELSE IF a.t = "bitarray" THEN Len(a.v) = bits
    ELSE TRUE

\* the name of the first <<name, argument, bits>> check that raises
RECURSIVE FirstInvalidArg(_)
FirstInvalidArg(checks) ==
    IF checks = <<>> THEN "none"
    ELSE IF ~ValidateArg(checks[1][2], checks[1][3]) THEN checks[1][1]
    ELSE FirstInvalidArg(Tail(checks))

\* the loop of encode() over zip(fields, widths): no int raises in to_bytes
ZipOk(fields) ==
    \A i \in DOMAIN fields :
        fields[i][1].t = "int" => IntToBytesOk(fields[i][1].v, fields[i][2] \div 8)

\* the loop of encode() over zip(fields, widths): an int gives bits // 8
\* bytes, a bitarray of the given width is appended, a str is an address
\* and gives its packed bytes, anything else is skipped
RECURSIVE ZipBits(_)
ZipBits(fields) ==
    IF fields = <<>> THEN <<>>
    ELSE LET f == fields[1][1]
             bits == fields[1][2]
             piece == IF f.t = "int" THEN FromBytes(IntToBytes(f.v, bits \div 8))
                      ELSE IF f.t = "bitarray" /\ Len(f.v) = bits THEN f.v
                      ELSE <<>>
         IN piece \o ZipBits(Tail(fields))

\* ServiceEntry: the ten constructor arguments, in order
ServiceEntryChecks(a) ==
    << <<"Entry Type", a[1], 8>>, <<"Index First Option Run", a[2], 8>>,
       <<"Index Second Option Run", a[3], 8>>, <<"number of Options 1", a[4], 4>>,
       <<"number of Options 2", a[5], 4>>, <<"Service ID", a[6], 16>>,
       <<"Instance ID", a[7], 16>>, <<"Major Version", a[8], 8>>,
       <<"TTL", a[9], 24>>, <<"Minor Version", a[10], 32>> >>

\* EventgroupEntry: the twelve constructor arguments, in order
EventgroupEntryChecks(a) ==
    << <<"Entry Type", a[1], 8>>, <<"Index First Option Run", a[2], 8>>,
       <<"Index Second Option Run", a[3], 8>>, <<"number of Options 1", a[4], 4>>,
       <<"number of Options 2", a[5], 4>>, <<"Service ID", a[6], 16>>,
       <<"Instance ID", a[7], 16>>, <<"Major Version", a[8], 8>>,
       <<"TTL", a[9], 24>>, <<"Reserved", a[10], 12>>, <<"Counter", a[11], 4>>,
       <<"Eventgroup ID", a[12], 16>> >>

\* the object a constructor stores: its class and its fields
NewObject(cls, fields) == [class |-> cls, fields |-> fields]

\* encode() of an entry: zip of the fields with their widths
EntryZip(checks) == [i \in DOMAIN checks |-> <<checks[i][2], checks[i][3]>>]

ChecksOf(cls, a) ==
    IF cls = "ServiceEntry" THEN ServiceEntryChecks(a) ELSE EventgroupEntryChecks(a)

EncodeEntry(obj) ==
    LET fields == EntryZip(ChecksOf(obj.class, obj.fields))
    IN IF ZipOk(fields)
       THEN [ok |-> TRUE, err |-> "none", bytes |-> ToBytes(ZipBits(fields))]
       ELSE [ok |-> FALSE, err |-> "OverflowError", bytes |-> <<>>]

\* ba2int(packet[a:b]) as an int argument
IntField(bits, a, b) == IntArg(Ba2int(Slice(bits, a, b)))

\* packet[a:b] as a bitarray argument
BitsField(bits, a, b) == BitsArg(Slice(bits, a, b))

\* the constructor arguments ServiceEntry.decode takes from the bits
ServiceEntryFields(bits) ==
    <<IntField(bits, 0, 8), IntField(bits, 8, 16), IntField(bits, 16, 24),
      BitsField(bits, 24, 28), BitsField(bits, 28, 32), IntField(bits, 32, 48),
      IntField(bits, 48, 64), IntField(bits, 64, 72), IntField(bits, 72, 96),
      IntField(bits, 96, 128)>>

\* the constructor arguments EventgroupEntry.decode takes from the bits
EventgroupEntryFields(bits) ==
    <<IntField(bits, 0, 8), IntField(bits, 8, 16), IntField(bits, 16, 24),
      BitsField(bits, 24, 28), BitsField(bits, 28, 32), IntField(bits, 32, 48),
      IntField(bits, 48, 64), IntField(bits, 64, 72), IntField(bits, 72, 96),
      BitsField(bits, 96, 108), BitsField(bits, 108, 112),
      IntField(bits, 112, 128)>>

\* ServiceEntry.decode / EventgroupEntry.decode: the length check, the
\* fields, then the constructor with its validation
DecodeEntry(cls, bs) ==
    IF Len(bs) # 16
    THEN [ok |-> FALSE, err |-> "ValueError", value |-> <<>>, index |-> 0]
    ELSE LET bits == FromBytes(bs)
             a == IF cls = "ServiceEntry" THEN ServiceEntryFields(bits)
                  ELSE EventgroupEntryFields(bits)
         IN IF FirstInvalidArg(ChecksOf(cls, a)) # "none"
            THEN [ok |-> FALSE, err |-> "ValueError", value |-> <<>>, index |-> 0]
            ELSE [ok |-> TRUE, err |-> "none", value |-> <<NewObject(cls, a)>>,
                  index |-> Len(bits)]

\* argument values offered to the constructors: at the upper end of the
\* width, one past it, and for the bit fields ints and bitarrays
TypeInputs == {IntArg(1), IntArg(256)}
IndexInputs == {IntArg(255), IntArg(256)}
NibbleInputs == {IntArg(0), IntArg(15), IntArg(16), BitsArg(<<0, 1, 0, 1>>)}
Nibble2Inputs == {IntArg(0), BitsArg(<<0, 0, 1, 0>>), BitsArg(<<1, 1, 1>>)}
IdInputs == {IntArg(65535), IntArg(65536)}
MajorInputs == {IntArg(255), IntArg(256)}
TtlInputs == {IntArg(16777215), IntArg(16777216)}
MinorInputs == {IntArg(-1), IntArg(16909060)}
ReservedInputs == {IntArg(255), IntArg(4095), IntArg(4096), BitsArg(Zeros(12))}
CounterInputs == {IntArg(0), IntArg(15), IntArg(16), BitsArg(<<1, 0, 0, 1>>)}

\* a constructor call with arguments a: validation, then the fields are stored
Constructor(cls, a, checks) ==
    LET bad == FirstInvalidArg(checks)
    IN /\ args' = <<NewObject(cls, a)>>
       /\ IF bad = "none"
          THEN /\ packet' = <<NewObject(cls, a)>>
               /\ raised' = NotRaised
          ELSE /\ packet' = packet
               /\ raised' = [err |-> "ValueError", field |-> bad]
       /\ series' = NotEncoded
       /\ UNCHANGED <<allocVars, histVars, threadVars, stream, decoded>>

\* ServiceEntry.__init__
ServiceEntryInit ==
    /\ args = <<>>
    /\ \E ty \in TypeInputs : \E i1, i2 \in IndexInputs :
       \E n1 \in NibbleInputs : \E n2 \in Nibble2Inputs :
       \E sid, iid \in IdInputs : \E major \in MajorInputs :
       \E ttl \in TtlInputs : \E minor \in MinorInputs :
        LET a == <<ty, i1, i2, n1, n2, sid, iid, major, ttl, minor>>
        IN Constructor("ServiceEntry", a, ServiceEntryChecks(a))

\* EventgroupEntry.__init__
EventgroupEntryInit ==
    /\ args = <<>>
    /\ \E ty \in TypeInputs : \E i1, i2 \in IndexInputs :
       \E n1 \in NibbleInputs : \E n2 \in Nibble2Inputs :
       \E sid, iid \in IdInputs : \E major \in MajorInputs :
       \E ttl \in TtlInputs : \E reserved \in ReservedInputs :
       \E counter \in CounterInputs : \E egid \in IdInputs :
        LET a == <<ty, i1, i2, n1, n2, sid, iid, major, ttl, reserved, counter, egid>>
        IN Constructor("EventgroupEntry", a, EventgroupEntryChecks(a))

\* ServiceEntry.encode / EventgroupEntry.encode
EntryEncode ==
    /\ packet # <<>>
    /\ series = NotEncoded
    /\ series' = EncodeEntry(packet[1])
    /\ UNCHANGED <<allocVars, histVars, threadVars, packet, stream, decoded, raised, args>>

\* decode of the class of the encoded entry, on the bytes encode returned
EntryDecode ==
    /\ packet # <<>>
    /\ stream # <<>>
    /\ decoded = NotDecoded
    /\ decoded' = DecodeEntry(packet[1].class, stream[1])
    /\ UNCHANGED <<allocVars, histVars, threadVars, packet, series, stream, raised, args>>

EntryNext ==
    ServiceEntryInit \/ EventgroupEntryInit \/ EntryEncode \/ Loopback \/ EntryDecode
EntrySpec == Init /\ [][EntryNext]_vars

\* v is an unsigned integer of at most `bits` bits
Fits(v, bits) ==
    v >= 0 /\ (v \div 2^(bits \div 2)) \div 2^(bits - bits \div 2) = 0

\* an int argument fits its width, a bitarray argument has its width
ArgFits(a, bits) ==
    IF a.t = "int" THEN Fits(a.v, bits)
    ELSE IF a.t = "bitarray" THEN Len(a.v) = bits
    ELSE TRUE

\* the ints among the arguments fit their widths
IntsFit(checks) ==
    \A i \in DOMAIN checks : checks[i][2].t = "int" => Fits(checks[i][2].v, checks[i][3])

\* the names of the arguments that are outside their widths
InvalidNames(checks) ==
    {checks[i][1] : i \in {j \in DOMAIN checks : ~ArgFits(checks[j][2], checks[j][3])}}

\* C17: encode of an accepted entry returns 16 bytes with service_id at
\* [4:6], instance_id at [6:8], major_version at [8] and ttl at [9:12].
C17_EntrySize ==
    (packet # <<>> /\ series # NotEncoded) =>
        LET f == packet[1].fields
            b == series.bytes
        IN /\ series.ok
           /\ Len(b) = 16
           /\ BytesToInt(SubSeq(b, 5, 6)) = f[6].v
           /\ BytesToInt(SubSeq(b, 7, 8)) = f[7].v
           /\ b[9] = f[8].v
           /\ BytesToInt(SubSeq(b, 10, 12)) = f[9].v

\* C18: a constructor call with an int argument outside its width raises
\* an error naming an offending argument and creates no entry; a call
\* whose arguments are all valid, the upper bounds included, creates it.
C18_EntryValidation ==
    args # <<>> =>
        LET checks == ChecksOf(args[1].class, args[1].fields)
        IN /\ ~IntsFit(checks) =>
                /\ packet = <<>>
                /\ raised.err = "ValueError"
                /\ raised.field \in InvalidNames(checks)
           /\ InvalidNames(checks) = {} =>
                /\ packet = args
                /\ raised = NotRaised

\* a Service entry with major_version = 256 and every other argument valid
\* has been rejected
C18_Witness ==
    /\ args # <<>> /\ args[1].class = "ServiceEntry"
    /\ args[1].fields[8] = IntArg(256)
    /\ InvalidNames(ServiceEntryChecks(args[1].fields)) = {"Major Version"}
    /\ packet = <<>> /\ raised.field = "Major Version"

(***************************************************************************)
(* SOME/IP-SD endpoint options (protocol/someipsd/option/ipv4_option.py    *)
(* and ipv6_option.py).  An address is a record [t, v]: t is its Python    *)
(* type ("str" as given by a caller, "IPv4Address" / "IPv6Address" as      *)
(* built by decode), v its IP version (0: not an address) and packed bytes.*)
(***************************************************************************)
StrArg(version, packed) == [t |-> "str", v |-> [version |-> version, packed |-> packed]]
AddressObject(cls, packed) ==
    [t |-> IF cls = "IPv4Option" THEN "IPv4Address" ELSE "IPv6Address",
     v |-> [version |-> IF cls = "IPv4Option" THEN 4 ELSE 6, packed |-> packed]]

\* IPv4Option.length / IPv6Option.length
OptionLength(cls) == IF cls = "IPv4Option" THEN 9 ELSE 21

\* the IP version __validate_ipv4_address / __validate_ipv6_address asks for
OptionVersion(cls) == IF cls = "IPv4Option" THEN 4 ELSE 6

\* the width of the address in the widths tuple of encode()
AddressBits(cls) == IF cls = "IPv4Option" THEN 32 ELSE 128

\* variant: the two sizes are exchanged
OptionSize_Swapped(cls) == IF cls = "IPv4Option" THEN 24 ELSE 12

\* the input length decode() insists on
OptionSize(cls) == IF cls = "IPv4Option" THEN 12 ELSE 24

\* the __validate_bit calls of the constructor, in order
OptionChecks(a) ==
    << <<"Type", a[1], 8>>, <<"Discardable Flag", a[2], 1>>,
       <<"Transport Protocol", a[4], 8>>,
       <<"Transport Protocol Port Number", a[5], 16>> >>

\* the first check of the constructor that raises: the four __validate_bit
\* calls, then ipaddress.ip_address(address).version
OptionInvalid(cls, a) ==
    IF FirstInvalidArg(OptionChecks(a)) # "none" THEN FirstInvalidArg(OptionChecks(a))
    ELSE IF a[3].v.version # OptionVersion(cls) THEN "Address"
    ELSE "none"

\* the fields and widths encode() zips
OptionZip(obj) ==
    LET a == obj.fields
    IN << <<IntArg(OptionLength(obj.class)), 16>>, <<a[1], 8>>, <<a[2], 1>>,
          <<BitsArg(Zeros(7)), 7>>, <<a[3], AddressBits(obj.class)>>,
          <<BitsArg(Zeros(8)), 8>>, <<a[4], 8>>, <<a[5], 16>> >>

\* the loop of encode(): a bitarray is appended, an int gives bits // 8
\* bytes, a str gives the packed address, anything else is skipped
RECURSIVE OptionBits(_)
OptionBits(fields) ==
    IF fields = <<>> THEN <<>>
    ELSE LET f == fields[1][1]
             bits == fields[1][2]
             piece == IF f.t = "bitarray" THEN f.v
                      ELSE IF f.t = "int" THEN FromBytes(IntToBytes(f.v, bits \div 8))
                      ELSE IF f.t = "str" THEN FromBytes(f.v.packed)
                      ELSE <<>>
         IN piece \o OptionBits(Tail(fields))

\* IPv4Option.encode / IPv6Option.encode
EncodeOption(obj) ==
    IF ZipOk(OptionZip(obj))
    THEN [ok |-> TRUE, err |-> "none", bytes |-> ToBytes(OptionBits(OptionZip(obj)))]
    ELSE [ok |-> FALSE, err |-> "OverflowError", bytes |-> <<>>]

\* the constructor arguments decode takes from the bits; the address is an
\* ipaddress object built from the packed bytes
OptionFields(cls, bits) ==
    LET n == AddressBits(cls)
    IN <<IntField(bits, 16, 24), BitsField(bits, 24, 25),
         AddressObject(cls, ToBytes(Slice(bits, 32, 32 + n))),
         IntField(bits, 40 + n, 48 + n), IntField(bits, 48 + n, 64 + n)>>

\* IPv4Option.decode / IPv6Option.decode
DecodeOption(cls, bs) ==
    IF Len(bs) # OptionSize(cls)
    THEN [ok |-> FALSE, err |-> "ValueError", value |-> <<>>, index |-> 0]
    ELSE LET a == OptionFields(cls, FromBytes(bs))
         IN IF OptionInvalid(cls, a) # "none"
            THEN [ok |-> FALSE, err |-> "ValueError", value |-> <<>>, index |-> 0]
            ELSE [ok |-> TRUE, err |-> "none", value |-> <<NewObject(cls, a)>>,
                  index |-> 8 * Len(bs)]

\* argument values offered to the option constructors
OptionTypeInputs == {IntArg(4), IntArg(255), IntArg(256)}
FlagInputs == {BitsArg(<<0>>), BitsArg(<<1>>), BitsArg(<<1, 0>>), IntArg(0), IntArg(1)}
AddressInputs ==
    {StrArg(4, <<192, 168, 0, 1>>),
     StrArg(6, <<32, 1, 13, 184, 0, 0, 0, 0, 0, 0, 0, 0, 0, 0, 0, 1>>),
     StrArg(0, <<>>)}
ProtocolInputs == {IntArg(6), IntArg(17), IntArg(256)}
PortInputs == {IntArg(30490), IntArg(65535), IntArg(65536)}

\* IPv4Option.__init__ / IPv6Option.__init__
OptionInit(cls) ==
    /\ args = <<>>
    /\ \E ty \in OptionTypeInputs : \E flag \in FlagInputs :
       \E address \in AddressInputs : \E proto \in ProtocolInputs :
       \E port \in PortInputs :
        LET a == <<ty, flag, address, proto, port>>
            bad == OptionInvalid(cls, a)
        IN /\ args' = <<NewObject(cls, a)>>
           /\ IF bad = "none"
              THEN /\ packet' = <<NewObject(cls, a)>>
                   /\ raised' = NotRaised
              ELSE /\ packet' = packet
                   /\ raised' = [err |-> "ValueError", field |-> bad]
           /\ series' = NotEncoded
           /\ UNCHANGED <<allocVars, histVars, threadVars, stream, decoded>>

IPv4OptionInit == OptionInit("IPv4Option")
IPv6OptionInit == OptionInit("IPv6Option")

\* encode() of the option that was constructed
OptionEncode ==
    /\ packet # <<>>
    /\ series = NotEncoded
    /\ series' = EncodeOption(packet[1])
    /\ UNCHANGED <<allocVars, histVars, threadVars, packet, stream, decoded, raised, args>>

\* decode of the class of the encoded option, on the bytes encode returned
OptionDecode ==
    /\ packet # <<>>
    /\ stream # <<>>
    /\ decoded = NotDecoded
    /\ decoded' = DecodeOption(packet[1].class, stream[1])
    /\ UNCHANGED <<allocVars, histVars, threadVars, packet, series, stream, raised, args>>

\* encode() of the option that decode returned
Reencode ==
    /\ decoded.ok
    /\ packet # decoded.value
    /\ packet' = decoded.value
    /\ series' = EncodeOption(decoded.value[1])
    /\ UNCHANGED <<allocVars, histVars, threadVars, stream, decoded, raised, args>>

OptionNext ==
    IPv4OptionInit \/ IPv6OptionInit \/ OptionEncode \/ Loopback \/ OptionDecode \/ Reencode
OptionSpec == Init /\ [][OptionNext]_vars

(***************************************************************************)
(* The four fixed-size decoders on raw input.                              *)
(***************************************************************************)
FixedClasses == {"ServiceEntry", "EventgroupEntry", "IPv4Option", "IPv6Option"}

\* cls.decode(series)
DecodeAs(cls, bs) ==
    IF cls \in {"ServiceEntry", "EventgroupEntry"} THEN DecodeEntry(cls, bs)
    ELSE DecodeOption(cls, bs)

\* bytes from the network are handed to the decode() of one of the classes
ReceiveFixed ==
    /\ stream = <<>>
    /\ \E cls \in FixedClasses : \E n \in 0..MaxStream : \E k \in StreamSeeds :
        /\ stream' = <<RawStream(n, k), cls>>
        /\ decoded' = NotDecoded
        /\ UNCHANGED <<allocVars, histVars, threadVars, packet, series, raised, args>>

DecodeFixed ==
    /\ Len(stream) = 2
    /\ decoded = NotDecoded
    /\ decoded' = DecodeAs(stream[2], stream[1])
    /\ UNCHANGED <<allocVars, histVars, threadVars, packet, series, stream, raised, args>>

FixedNext == ReceiveFixed \/ DecodeFixed
FixedSpec == Init /\ [][FixedNext]_vars

\* the sizes the four decoders are to insist on
ExpectedSize(cls) ==
    IF cls = "IPv4Option" THEN 12 ELSE IF cls = "IPv6Option" THEN 24 ELSE 16

\* C19: each fixed-size decoder fails on every input that has not exactly
\* its size (16, 16, 12, 24 bytes) and returns an object of its class on an
\* input of exactly its size.
C19_FixedSizes ==
    (Len(stream) = 2 /\ decoded # NotDecoded) =>
        /\ decoded.ok <=> Len(stream[1]) = ExpectedSize(stream[2])
        /\ ~decoded.ok => decoded.err # "none" /\ decoded.value = <<>>
        /\ decoded.ok => decoded.value[1].class = stream[2]

\* an IPv6 option decoder has rejected an input one byte too long
C19_Witness ==
    /\ Len(stream) = 2 /\ stream[2] = "IPv6Option" /\ Len(stream[1]) = 25
    /\ ~decoded.ok /\ decoded.err = "ValueError"

\* C20: for an option constructed with a bitarray flag, decode of its
\* encoding succeeds and gives the same type, flag, address, transport
\* protocol and port, and encode of the decoded option gives the same bytes.
C20_OptionRoundTrip ==
    (args # <<>> /\ packet # <<>> /\ args[1].fields[2].t = "bitarray") =>
        /\ series # NotEncoded => series.ok
        /\ (stream # <<>> /\ decoded # NotDecoded) =>
              /\ decoded.ok
              /\ LET v == args[1].fields
                     d == decoded.value[1].fields
                 IN /\ d[1] = v[1] /\ d[2] = v[2] /\ d[3].v = v[3].v
                    /\ d[4] = v[4] /\ d[5] = v[5]
              /\ (packet = decoded.value /\ series # NotEncoded) =>
                    series.ok /\ series.bytes = stream[1]

\* C21: encode of an accepted option gives 12 (IPv4) or 24 (IPv6) bytes:
\* 0x0009 or 0x0015 at [0:2], the type at [2], the discardable flag as the
\* top bit of byte [3] and 7 zero bits, the address, a zero byte, the
\* transport protocol and the 16-bit port.
C21_OptionLayout ==
    (packet # <<>> /\ packet = args /\ series # NotEncoded) =>
        LET cls == packet[1].class
            f == packet[1].fields
            n == IF cls = "IPv4Option" THEN 4 ELSE 16
            b == series.bytes
        IN /\ series.ok
           /\ Len(b) = 8 + n
           /\ BytesToInt(SubSeq(b, 1, 2)) = (IF cls = "IPv4Option" THEN 9 ELSE 21)
           /\ b[3] = f[1].v
           /\ b[4] = 128 * (IF f[2].t = "int" THEN f[2].v ELSE f[2].v[1])
           /\ SubSeq(b, 5, 4 + n) = f[3].v.packed
           /\ b[5 + n] = 0
           /\ b[6 + n] = f[4].v
           /\ BytesToInt(SubSeq(b, 7 + n, 8 + n)) = f[5].v

\* C22: the entries_array of every service-discovery Packet that has been
\* constructed or decoded is a whole multiple of 16 bytes long.
C22_EntriesGranularity ==
    /\ packet # <<>> => Len(packet[1].entries_array) % 16 = 0
    /\ decoded.ok => Len(decoded.value[1].entries_array) % 16 = 0

\* C23: after any sequence of operations the available pool and the client
\* ids assigned in the address map are disjoint and together are exactly the
\* full range of client ids: no id is leaked and none is both available and
\* assigned.
C23_IdConservation ==
    /\ client_pool \cap AssignedIds = {}
    /\ client_pool \cup AssignedIds = ClientIds

\* C24: every key of the client-to-session-counter map is a client id that is
\* assigned to a registered address; get_session_id with an unassigned id
\* creates no counter.
C24_NoOrphanCounters ==
    DOMAIN client_session_map \subseteq AssignedIds

\* the threads that are inside the with block of an Allocator method
InBody == {t \in Threads : pc[t] = "exit"}

\* in this step thread t enters the body of an Allocator method
Enters(t) == pc[t] # "exit" /\ pc'[t] = "exit"

\* C25: at most one thread at a time is inside the body of an Allocator
\* operation, and that thread owns the lock; a thread that holds
\* allocator.lock itself is never blocked when it calls a method; and while
\* a thread holds the lock no other thread enters a body and the pool, the
\* maps and the counters change only in a step in which the holder runs a
\* method.
C25_CriticalSections ==
    /\ [](/\ Cardinality(InBody) <= 1
          /\ \A t \in InBody : lockOwner = t /\ lockCount >= 1
          /\ \A t \in Threads : lockOwner = t => pc[t] # "acquire")
    /\ [][/\ \A t \in Threads : Enters(t) => lockOwner \in {NoThread, t}
          /\ allocVars' # allocVars => \E t \in Threads : Enters(t)]_vars

\* thread t took allocator.lock itself, got a client id for an address with
\* get_client_id and is now inside get_session_id for that id, while the
\* other thread is blocked in a call
C25_Witness ==
    \E t \in Threads, u \in Threads, a \in Addresses :
        /\ pc[t] = "exit" /\ op[t] = "get_session_id" /\ lockCount = 2
        /\ Has(address_client_map, a) /\ arg[t] = address_client_map[a]
        /\ u # t /\ pc[u] = "acquire"

\* C26: under fair scheduling every invoked operation returns and the lock
\* is free again afterwards, also when the operation fails: a call blocked
\* on the lock eventually runs its body, and a thread inside a body, whatever
\* its outcome, eventually is back in its caller with the lock free.
C26_Progress ==
    \A t \in Threads :
        /\ (pc[t] = "acquire") ~> (pc[t] = "exit")
        /\ (pc[t] = "exit") ~> (pc[t] = "idle" /\ lockOwner = NoThread)

\* get_client_id failed on an exhausted pool inside the with block while
\* another thread is blocked on the lock
C26_Witness ==
    \E t \in Threads, u \in Threads :
        /\ pc[t] = "exit" /\ op[t] = "get_client_id" /\ last.err = "KeyError"
        /\ lockOwner = t
        /\ pc[u] = "acquire"

\* the maps m and n agree on key k: both lack it or both hold the same value
SameAt(m, n, k) == Has(m, k) = Has(n, k) /\ (Has(m, k) => m[k] = n[k])

\* C27: release_client_id of an unregistered address leaves the pool, the
\* address map and the session counters unchanged; release_client_id of a
\* registered address leaves the client id of every other registered address
\* and the session counter of every other client id unchanged.
C27_ReleaseFrame ==
    [][\A t \in Threads, a \in Addresses :
          Runs(t, "release_client_id", a) =>
              IF ~Has(address_client_map, a)
              THEN allocVars' = allocVars
              ELSE /\ \A b \in Addresses \ {a} :
                         SameAt(address_client_map, address_client_map', b)
                   /\ \A d \in ClientIds \ {address_client_map[a]} :
                         SameAt(client_session_map, client_session_map', d)]_vars

\* a registered address has just been released while another address is
\* still registered and the counter of another client id is in use
C27_Witness ==
    \E t \in Threads :
        /\ pc[t] = "exit" /\ op[t] = "release_client_id"
        /\ last.case \in {"freed", "freed_on_empty"}
        /\ ~Has(address_client_map, arg[t])
        /\ address_client_map # EmptyMap
        /\ client_session_map # EmptyMap

\* C28: get_session_id(c) changes only the counter of c: the pool, the
\* address map and the counter of every other client id are unchanged, and
\* so is the last value handed out for every other client id.
C28_SessionIndependence ==
    [][\A t \in Threads, c \in ClientIds :
          Runs(t, "get_session_id", c) =>
              /\ client_pool' = client_pool
              /\ address_client_map' = address_client_map
              /\ Has(client_session_map', c)
              /\ \A d \in ClientIds \ {c} :
                    /\ SameAt(client_session_map, client_session_map', d)
                    /\ lastSession'[d] = lastSession[d]]_vars

\* get_session_id has just run for one client id while the counter of
\* another client id is part of the way through its values
C28_Witness ==
    \E t \in Threads, d \in ClientIds :
        /\ pc[t] = "exit" /\ op[t] = "get_session_id"
        /\ d # arg[t]
        /\ Has(client_session_map, d) /\ client_session_map[d] > 1
        /\ client_session_map[arg[t]] > 1

(***************************************************************************)
(* The length field of a received base packet.                             *)
(***************************************************************************)
\* values of the four bytes series[4:8] of an input
LengthInputs == {<<0, 0, 0, 0>>, <<0, 0, 0, 8>>, <<0, 0, 1, 0>>, <<255, 255, 255, 255>>}

\* the input bs with the bytes l in place of bytes [4:8]
WithLength(bs, l) == [i \in 1..Len(bs) |-> IF i \in 5..8 THEN l[i - 4] ELSE bs[i]]

\* C29: inputs of at least 16 bytes that differ only in bytes [4:8] decode
\* to equal Packets, and the decoded payload is exactly the bytes from offset
\* 16 to the end of the input, whatever the length field declares.
C29_LengthIgnored ==
    (stream # <<>> /\ decoded # NotDecoded /\ Len(stream[1]) >= 16) =>
        /\ decoded.ok
        /\ decoded.value[1].payload = SubSeq(stream[1], 17, Len(stream[1]))
        /\ \A l \in LengthInputs :
              LET other == DecodePacket(WithLength(stream[1], l))
              IN other.ok /\ other.value = decoded.value

\* an input with a payload whose length field does not declare 8 + the
\* number of payload bytes has been decoded
C29_Witness ==
    /\ stream # <<>> /\ Len(stream[1]) > 16
    /\ decoded.ok
    /\ BytesToInt(SubSeq(stream[1], 5, 8)) # Len(stream[1]) - 8
    /\ Len(decoded.value[1].payload) = Len(stream[1]) - 16

(***************************************************************************)
(* BitReader (utils/bit_reader.py) on its own: a reader is made over a bit *)
(* sequence, then read() and the index setter are called on it.  stream    *)
(* holds the bits, decoded the index and the outcome of the last call,     *)
(* args the last call.                                                     *)
(***************************************************************************)
MaxBits == 4

\* the lengths passed to read(): an int, negative ones included
ReadInputs == (0 - 2)..(MaxBits + 1)

\* the values assigned to reader.index
SeekInputs == (0 - 1)..(MaxBits + 1)

\* BitReader(bits): the index is 0
BitReaderInit ==
    /\ stream = <<>>
    /\ \E bits \in SeqsUpTo({0, 1}, MaxBits) :
        /\ stream' = <<bits>>
        /\ decoded' = NotDecoded
        /\ args' = <<>>
        /\ UNCHANGED <<allocVars, histVars, threadVars, packet, series, raised>>

\* reader.read(length)
Read ==
    /\ stream # <<>>
    /\ \E length \in ReadInputs :
        LET r == BitReaderRead(stream[1], decoded.index, length)
        IN /\ decoded' = IF r.ok
                         THEN [ok |-> TRUE, err |-> "none", value |-> r.value,
                               index |-> r.index]
                         ELSE [ok |-> FALSE, err |-> "ValueError", value |-> <<>>,
                               index |-> r.index]
           /\ args' = <<"read", length>>
           /\ UNCHANGED <<allocVars, histVars, threadVars, packet, series, stream, raised>>

\* reader.index = value
SetIndex ==
    /\ stream # <<>>
    /\ \E value \in SeekInputs :
        /\ decoded' = IF value < 0 \/ value > Len(stream[1])
                      THEN [ok |-> FALSE, err |-> "ValueError", value |-> <<>>,
                            index |-> decoded.index]
                      ELSE [ok |-> TRUE, err |-> "none", value |-> <<>>,
                            index |-> value]
        /\ args' = <<"index", value>>
        /\ UNCHANGED <<allocVars, histVars, threadVars, packet, series, stream, raised>>

BitReaderNext == BitReaderInit \/ Read \/ SetIndex
BitReaderSpec == Init /\ [][BitReaderNext]_vars

\* C30: the index starts at 0 and stays in [0, len(bits)]; read(n) with
\* 0 <= n <= len - index returns bits[index : index + n] and advances the
\* index by n; read(n) with n greater than the remaining length fails with
\* an error and leaves the index unchanged; no read makes the index smaller.
C30_BitCursor ==
    /\ [](stream # <<>> => decoded.index \in 0..Len(stream[1]))
    /\ [][(stream = <<>> /\ stream' # <<>>) => decoded'.index = 0]_vars
    /\ [][\A n \in ReadInputs :
            (stream # <<>> /\ args' = <<"read", n>>) =>
                LET remaining == Len(stream[1]) - decoded.index
                IN /\ (0 <= n /\ n <= remaining) =>
                         /\ decoded'.ok
                         /\ decoded'.value =
                               SubSeq(stream[1], decoded.index + 1, decoded.index + n)
                         /\ decoded'.index = decoded.index + n
                   /\ n > remaining =>
                         /\ ~decoded'.ok /\ decoded'.err # "none"
                         /\ decoded'.index = decoded.index
                   /\ decoded'.index >= decoded.index]_vars

====
